---------------------------- MODULE Spec2Model ----------------------------
(***************************************************************************)
(* Deposit detection and balance reconciliation core of the storefront bot *)
(* (backend/payments.py over backend/db.py).                               *)
(*                                                                         *)
(* Money is kept in hundredths of a lamport, so that lamports / 1e9 and    *)
(* the percentage computations of the code are exact integer operations.   *)
(* A keypair is an opaque integer: the public and the private half of one  *)
(* generated keypair carry the same number.                                *)
(***************************************************************************)
EXTENDS Integers, Sequences, FiniteSets, TLC

\* ------------------------------------------------------------------ bounds
NUsers == 2
MaxSig == 2
MaxLamports == 1
MaxFaults == 1
MaxNewKeys == 2
MaxCalls == 2
MaxOrders == 2
MaxPrice == 1
MaxSweeps == 1
MaxRetain == 1
MaxOnChain == 2
MaxBalance == 2

\* ------------------------------------------------------- program constants
referral_bonus_percent == 5
RECENT_LIMIT == 10

None == 0
Users == 1 .. NUsers
Sigs == 1 .. MaxSig
Keys == 1 .. (NUsers + MaxNewKeys)
Monitors == {1, 2}
Procs == {"bot", "api"}

\* ----------------------------------------------------------------- helpers
RECURSIVE DescSeq(_)
DescSeq(S) ==
    IF S = {} THEN << >>
    ELSE LET x == CHOOSE y \in S : \A z \in S : z <= y
         IN  << x >> \o DescSeq(S \ {x})

Reverse(s) == [i \in 1 .. Len(s) |-> s[Len(s) + 1 - i]]

Take(s, n) == IF Len(s) <= n THEN s ELSE SubSeq(s, 1, n)

RECURSIVE SumAmounts(_)
SumAmounts(s) == IF s = << >> THEN 0 ELSE Head(s).amount_sol + SumAmounts(Tail(s))

\* lamports / 1e9, in the money unit of the model
ToSol(lamports) == lamports * 100

VARIABLES
    balance_sol,        \* users.balance_sol
    deposit_address,    \* users.deposit_address (None until provisioned)
    referral_earnings,  \* users.referral_earnings
    transactions,       \* the transactions table, in insertion (id) order
    keypairs_file,      \* user_keypairs.json: user id -> keypair
    keypair_cache,      \* _keypair_cache of each process
    next_key,           \* the next keypair the generator will produce
    chain,              \* the external ledger: one record per signature
    mon,                \* the state of each payment_monitor_loop
    prov,               \* the get_or_create_deposit_address call of each process
    returned,           \* history: the addresses returned for each account, in order
    n_deposit_credit,   \* history: update_balance calls of line 166, per signature and account
    n_bonus_credit,     \* history: update_balance calls of line 173, per signature and account
    next_order,         \* the next order id create_order will produce
    notifications,      \* history: "Deposit Confirmed" messages sent, per user
    delta_sum,          \* history: sum of the amounts passed to update_balance, per user
    faults,             \* number of exceptions raised so far by storage or sink calls
    MAIN_WALLET,        \* the treasury address of the environment, or None
    onchain,            \* what get_balance answers: the lamports held by each address
    treasury,           \* the lamports the treasury address has received
    sweep,              \* the sweep_user_funds call in progress
    sweep_results,      \* history: what the sweep_user_funds calls returned, in order
    batch               \* the sweep_all_users call in progress

dbVars == << balance_sol, deposit_address, referral_earnings, transactions, next_order >>
keyVars == << keypairs_file, keypair_cache, next_key, prov, returned >>
histVars == << n_deposit_credit, n_bonus_credit, notifications, delta_sum >>
sweepVars == << MAIN_WALLET, onchain, treasury, sweep, sweep_results, batch >>
vars == << balance_sol, deposit_address, referral_earnings, transactions,
           next_order, keypairs_file, keypair_cache, next_key, prov, returned, chain, mon,
           n_deposit_credit, n_bonus_credit, notifications, delta_sum, faults,
           MAIN_WALLET, onchain, treasury, sweep, sweep_results, batch >>

\* users.referred_by is written once, when the account is created
referred_by == [u \in Users |-> IF u = 1 THEN None ELSE 1]

\* ---------------------------------------------------------------- db layer
SigTag(s) == << "sig", s >>
ReferralTag(s) == << "referral", s >>
OrderTag(o) == << "order", o >>
RefPurchaseTag(o) == << "ref_purchase", o >>

\* a lookup that only inspects the newest row
get_transaction_by_signature_newest(tag) ==
    /\ transactions # << >>
    /\ transactions[Len(transactions)].tx_signature = tag

get_transaction_by_signature(tag) ==
    \E i \in 1 .. Len(transactions) : transactions[i].tx_signature = tag

\* INSERT OR REPLACE: a row with the same tx_signature is removed and the
\* new row takes its place at the end
record_transaction_replace(txs, user_id, tag, amount_sol, tx_type) ==
    Append(SelectSeq(txs, LAMBDA e : e.tx_signature # tag),
           [tx_signature |-> tag, user_id |-> user_id,
            amount_sol |-> amount_sol, tx_type |-> tx_type])

\* an insert into a table without the UNIQUE constraint on tx_signature
record_transaction_unconstrained(txs, user_id, tag, amount_sol, tx_type) ==
    Append(txs, [tx_signature |-> tag, user_id |-> user_id,
                 amount_sol |-> amount_sol, tx_type |-> tx_type])

record_transaction(txs, user_id, tag, amount_sol, tx_type) ==
    IF \E i \in 1 .. Len(txs) : txs[i].tx_signature = tag
    THEN txs
    ELSE Append(txs, [tx_signature |-> tag, user_id |-> user_id,
                      amount_sol |-> amount_sol, tx_type |-> tx_type])

\* the row the code calls last_tx: the newest transaction of the user
LastTxIsReferral(txs, user_id) ==
    LET idx == {i \in 1 .. Len(txs) : txs[i].user_id = user_id}
    IN  /\ idx # {}
        /\ LET last == CHOOSE i \in idx : \A j \in idx : j <= i
           IN  txs[last].tx_type \in {"referral_bonus", "referral_commission"}

\* an update that writes the amount over the balance instead of adding it
update_balance_overwrite(bal, earn, txs, user_id, amount) ==
    [balance_sol |-> [bal EXCEPT ![user_id] = amount],
     referral_earnings |-> earn]

\* the users table after update_balance, given the transactions table it reads
update_balance(bal, earn, txs, user_id, amount) ==
    [balance_sol |-> [bal EXCEPT ![user_id] = @ + amount],
     referral_earnings |->
         IF amount > 0 /\ LastTxIsReferral(txs, user_id)
         THEN [earn EXCEPT ![user_id] = @ + amount]
         ELSE earn]

get_all_users ==
    LET ids == DescSeq(Users)
    IN  [i \in 1 .. Len(ids) |-> [id |-> ids[i], deposit_address |-> deposit_address[ids[i]]]]

\* -------------------------------------------------------- address registry
NoKeypairs == [u \in Users |-> None]

ProvIdle == [pc |-> "idle", uid |-> None, public_key |-> None, keypairs |-> NoKeypairs]

\* a caller that does not look at the address the account already has
ProvStart_unchecked(p, u) ==
    /\ prov[p].pc = "idle"
    /\ Len(returned[u]) < MaxCalls
    /\ prov' = [prov EXCEPT ![p].pc = "keypair", ![p].uid = u]
    /\ UNCHANGED << sweepVars, dbVars, keypairs_file, keypair_cache, next_key, returned,
                    chain, mon, histVars, faults >>

\* lines 92-94: the address of the account, when it has one, is returned
ProvStart(p, u) ==
    /\ prov[p].pc = "idle"
    /\ Len(returned[u]) < MaxCalls
    /\ IF deposit_address[u] # None
       THEN /\ returned' = [returned EXCEPT ![u] = Append(@, deposit_address[u])]
            /\ UNCHANGED prov
       ELSE /\ prov' = [prov EXCEPT ![p].pc = "keypair", ![p].uid = u]
            /\ UNCHANGED returned
    /\ UNCHANGED << sweepVars, dbVars, keypairs_file, keypair_cache, next_key,
                    chain, mon, histVars, faults >>

\* load_keypairs answers kp: the file content, or {} when reading it fails
LoadFault(kp) == IF kp = keypairs_file THEN faults ELSE faults + 1

\* get_user_keypair: the cache of the process, then the keystore file
ProvGetKeypair(p, kp) ==
    /\ prov[p].pc = "keypair"
    /\ LET u == prov[p].uid
       IN  IF keypair_cache[p][u] # None
           THEN /\ prov' = [prov EXCEPT ![p].pc = "update",
                                        ![p].public_key = keypair_cache[p][u]]
                /\ UNCHANGED << keypair_cache, faults >>
           ELSE /\ faults' = LoadFault(kp)
                /\ IF kp[u] # None
                   THEN /\ keypair_cache' = [keypair_cache EXCEPT ![p][u] = kp[u]]
                        /\ prov' = [prov EXCEPT ![p].pc = "update",
                                                ![p].public_key = kp[u]]
                   ELSE /\ prov' = [prov EXCEPT ![p].pc = "generate"]
                        /\ UNCHANGED keypair_cache
    /\ UNCHANGED << sweepVars, dbVars, keypairs_file, next_key, returned, chain, mon, histVars >>

\* generate_user_keypair, lines 64-68: a fresh keypair, and the file is read
ProvGenerate(p, kp) ==
    /\ prov[p].pc = "generate"
    /\ next_key \in Keys
    /\ next_key' = next_key + 1
    /\ faults' = LoadFault(kp)
    /\ prov' = [prov EXCEPT ![p].pc = "save", ![p].public_key = next_key,
                            ![p].keypairs = kp]
    /\ UNCHANGED << sweepVars, dbVars, keypairs_file, keypair_cache, returned, chain, mon, histVars >>

\* generate_user_keypair, lines 69-74: the file is rewritten from what was read
ProvSave(p) ==
    /\ prov[p].pc = "save"
    /\ keypairs_file' = [prov[p].keypairs EXCEPT ![prov[p].uid] = prov[p].public_key]
    /\ keypair_cache' = [keypair_cache EXCEPT ![p][prov[p].uid] = prov[p].public_key]
    /\ prov' = [prov EXCEPT ![p].pc = "update", ![p].keypairs = NoKeypairs]
    /\ UNCHANGED << sweepVars, dbVars, next_key, returned, chain, mon, histVars, faults >>

\* save_keypairs swallows a write error: the keypair is cached and used anyway
ProvSaveFails(p) ==
    /\ prov[p].pc = "save"
    /\ faults < MaxFaults
    /\ faults' = faults + 1
    /\ keypair_cache' = [keypair_cache EXCEPT ![p][prov[p].uid] = prov[p].public_key]
    /\ prov' = [prov EXCEPT ![p].pc = "update", ![p].keypairs = NoKeypairs]
    /\ UNCHANGED << sweepVars, dbVars, keypairs_file, next_key, returned, chain, mon, histVars >>

\* lines 102-104; the UNIQUE column refuses the address of another account
ProvUpdate(p) ==
    /\ prov[p].pc = "update"
    /\ LET u == prov[p].uid
           public_key == prov[p].public_key
       IN  IF \E v \in Users \ {u} : deposit_address[v] = public_key
           THEN UNCHANGED << deposit_address, returned >>
           ELSE /\ deposit_address' = [deposit_address EXCEPT ![u] = public_key]
                /\ returned' = [returned EXCEPT ![u] = Append(@, public_key)]
    /\ prov' = [prov EXCEPT ![p] = ProvIdle]
    /\ UNCHANGED << sweepVars, balance_sol, referral_earnings, transactions, next_order,
                    keypairs_file, keypair_cache, next_key, chain, mon, histVars, faults >>

\* update_user_deposit_address raises: the call ends without an address
ProvUpdateFails(p) ==
    /\ prov[p].pc = "update"
    /\ faults < MaxFaults
    /\ faults' = faults + 1
    /\ prov' = [prov EXCEPT ![p] = ProvIdle]
    /\ UNCHANGED << sweepVars, dbVars, keypairs_file, keypair_cache, next_key, returned,
                    chain, mon, histVars >>

\* the process is restarted: its cache is empty again
Restart(p) ==
    /\ prov[p].pc = "idle"
    /\ keypair_cache[p] # NoKeypairs
    /\ keypair_cache' = [keypair_cache EXCEPT ![p] = NoKeypairs]
    /\ UNCHANGED << sweepVars, dbVars, keypairs_file, next_key, prov, returned,
                    chain, mon, histVars, faults >>

\* ------------------------------------------------------------------- chain
NoTransfer == [mentions |-> {}, account_keys |-> {},
               pre_balances |-> [k \in Keys |-> 0],
               post_balances |-> [k \in Keys |-> 0], final |-> FALSE]

OnChain(s) == chain[s].mentions # {}

RegisteredAddresses == {deposit_address[u] : u \in Users} \ {None}

\* a transfer that mentions address a appears in the history of a; the code
\* reads the two balances of a only through their difference, so one of them
\* is zero and every net amount in -MaxLamports .. MaxLamports occurs once
ChainTransfer(s) ==
    /\ ~OnChain(s)
    /\ \A t \in Sigs : t < s => OnChain(t)
    /\ \E a \in RegisteredAddresses, in_keys \in BOOLEAN, fin \in BOOLEAN,
          pre \in 0 .. MaxLamports, post \in 0 .. MaxLamports :
          /\ ~in_keys => pre = 0 /\ post = 0
          /\ pre = 0 \/ post = 0
          /\ chain' = [chain EXCEPT ![s] =
                 [mentions |-> {a},
                  account_keys |-> IF in_keys THEN {a} ELSE {},
                  pre_balances |-> [k \in Keys |-> IF k = a THEN pre ELSE 0],
                  post_balances |-> [k \in Keys |-> IF k = a THEN post ELSE 0],
                  final |-> fin]]
    /\ UNCHANGED << sweepVars, dbVars, keyVars, mon, histVars, faults >>

ChainFinalize(s) ==
    /\ OnChain(s)
    /\ ~chain[s].final
    /\ chain' = [chain EXCEPT ![s].final = TRUE]
    /\ UNCHANGED << sweepVars, dbVars, keyVars, mon, histVars, faults >>

\* get_signatures_for_address: newest first, at most limit
get_recent_transactions(address, limit) ==
    Take(DescSeq({s \in Sigs : address \in chain[s].mentions}), limit)


\* ------------------------------------------------------ process_transaction
\* sig_str of the transfer the loop of monitor_user_deposits is at
CurSig(m) == Head(mon[m].todo)

\* credited: history, whether update_balance of line 166 ran in this turn of
\* the account
MonStart == [pc |-> "sleep", users |-> << >>, uid |-> None, dep_addr |-> None,
             last_signature |-> None, todo |-> << >>, new_sig |-> None,
             sol_received |-> 0, bonus |-> 0, result |-> None,
             last_sigs |-> [u \in Users |-> None], outcome |-> "none",
             credited |-> FALSE]

\* a loop that takes the next transfer without looking at the amount returned
PtReturn_silent(m, amount, outcome) ==
    mon' = [mon EXCEPT ![m].pc = "for_tx",
                       ![m].todo = Tail(@),
                       ![m].sol_received = 0,
                       ![m].bonus = 0,
                       ![m].outcome = outcome]

\* process_transaction returns amount to the loop of monitor_user_deposits,
\* which sets new_sig when the amount is truthy and takes the next transfer
\* every transaction that was examined becomes the candidate watermark,
\* attributed or not
PtReturn_examined(m, amount, outcome) ==
    mon' = [mon EXCEPT ![m].pc = "for_tx",
                       ![m].todo = Tail(@),
                       ![m].new_sig = Head(mon[m].todo),
                       ![m].sol_received = 0,
                       ![m].bonus = 0,
                       ![m].outcome = outcome]

PtReturn(m, amount, outcome) ==
    mon' = [mon EXCEPT ![m].pc = "for_tx",
                       ![m].todo = Tail(@),
                       ![m].new_sig = IF amount # 0 THEN Head(mon[m].todo) ELSE @,
                       ![m].sol_received = 0,
                       ![m].bonus = 0,
                       ![m].outcome = outcome]

PtCheck(m) ==
    /\ mon[m].pc = "pt_check"
    /\ IF get_transaction_by_signature(SigTag(Head(mon[m].todo)))
       THEN PtReturn(m, 0, "already")
       ELSE mon' = [mon EXCEPT ![m].pc = "pt_get"]
    /\ UNCHANGED << sweepVars, dbVars, keyVars, chain, histVars, faults >>

lamports_received(tx, address) == tx.post_balances[address] - tx.pre_balances[address]

\* a guard that lets a zero delta through
IsDeposit_zero(lamports) == ~(lamports < 0)

IsDeposit(lamports) == ~(lamports <= 0)

\* the RPC raises (caught at line 178), or tx.value or its meta is missing
PtUnavailable(m) ==
    /\ mon[m].pc = "pt_get"
    /\ \E o \in {"rpc_error", "no_value", "no_meta"} :
          /\ o # "rpc_error" => ~chain[Head(mon[m].todo)].final
          /\ PtReturn(m, 0, o)
    /\ UNCHANGED << sweepVars, dbVars, keyVars, chain, histVars, faults >>

\* the settlement detail is there: lines 152-164
PtDetail(m) ==
    /\ mon[m].pc = "pt_get"
    /\ LET tx == chain[Head(mon[m].todo)]
           addr == mon[m].dep_addr
       IN  /\ tx.final
           /\ IF addr \notin tx.account_keys
              THEN PtReturn(m, 0, "not_participant")
              ELSE IF ~IsDeposit(lamports_received(tx, addr))
                   THEN PtReturn(m, 0, "no_deposit")
                   ELSE mon' = [mon EXCEPT
                            ![m].pc = "pt_record",
                            ![m].sol_received = ToSol(lamports_received(tx, addr))]
    /\ UNCHANGED << sweepVars, dbVars, keyVars, chain, histVars, faults >>

PtRecordDeposit(m) ==
    /\ mon[m].pc = "pt_record"
    /\ transactions' = record_transaction(transactions, mon[m].uid,
                            SigTag(Head(mon[m].todo)), mon[m].sol_received, "deposit")
    /\ mon' = [mon EXCEPT ![m].pc = "pt_credit",
                          ![m].outcome = IF get_transaction_by_signature(SigTag(Head(mon[m].todo)))
                                         THEN "duplicate" ELSE "inserted"]
    /\ UNCHANGED << sweepVars, balance_sol, deposit_address, referral_earnings, next_order,
                    keyVars, chain, histVars, faults >>

PtCreditDeposit(m) ==
    /\ mon[m].pc = "pt_credit"
    /\ LET upd == update_balance(balance_sol, referral_earnings, transactions,
                                 mon[m].uid, mon[m].sol_received)
       IN  /\ balance_sol' = upd.balance_sol
           /\ referral_earnings' = upd.referral_earnings
    /\ n_deposit_credit' = [n_deposit_credit EXCEPT ![Head(mon[m].todo)][mon[m].uid] = @ + 1]
    /\ delta_sum' = [delta_sum EXCEPT ![mon[m].uid] = @ + mon[m].sol_received]
    /\ mon' = [mon EXCEPT ![m].pc = "pt_user", ![m].credited = TRUE]
    /\ UNCHANGED << sweepVars, deposit_address, transactions, next_order, keyVars, chain,
                    n_bonus_credit, notifications, faults >>

referral_bonus(sol_received, bonus_pct) == (sol_received * bonus_pct) \div 100

PtReferrer(m) ==
    /\ mon[m].pc = "pt_user"
    /\ IF referred_by[mon[m].uid] # None
       THEN mon' = [mon EXCEPT ![m].pc = "pt_bonus",
                               ![m].bonus = referral_bonus(mon[m].sol_received,
                                                           referral_bonus_percent)]
       ELSE PtReturn(m, mon[m].sol_received, "credited")
    /\ UNCHANGED << sweepVars, dbVars, keyVars, chain, histVars, faults >>

PtCreditBonus(m) ==
    /\ mon[m].pc = "pt_bonus"
    /\ LET upd == update_balance(balance_sol, referral_earnings, transactions,
                                 referred_by[mon[m].uid], mon[m].bonus)
       IN  /\ balance_sol' = upd.balance_sol
           /\ referral_earnings' = upd.referral_earnings
    /\ n_bonus_credit' = [n_bonus_credit EXCEPT ![Head(mon[m].todo)][mon[m].uid] = @ + 1]
    /\ delta_sum' = [delta_sum EXCEPT ![referred_by[mon[m].uid]] = @ + mon[m].bonus]
    /\ mon' = [mon EXCEPT ![m].pc = "pt_bonus_record"]
    /\ UNCHANGED << sweepVars, deposit_address, transactions, next_order, keyVars, chain,
                    n_deposit_credit, notifications, faults >>

PtRecordBonus(m) ==
    /\ mon[m].pc = "pt_bonus_record"
    /\ transactions' = record_transaction(transactions, referred_by[mon[m].uid],
                            ReferralTag(Head(mon[m].todo)), mon[m].bonus, "referral_bonus")
    /\ PtReturn(m, mon[m].sol_received, "credited")
    /\ UNCHANGED << sweepVars, balance_sol, deposit_address, referral_earnings, next_order,
                    keyVars, chain, histVars, faults >>

\* a storage call of process_transaction raises: the except clause returns None
PtException(m) ==
    /\ mon[m].pc \in {"pt_check", "pt_record", "pt_credit", "pt_user",
                      "pt_bonus", "pt_bonus_record"}
    /\ faults < MaxFaults
    /\ faults' = faults + 1
    /\ PtReturn(m, 0, "failed")
    /\ UNCHANGED << sweepVars, dbVars, keyVars, chain, histVars >>

\* --------------------------------------------------- monitor_user_deposits
\* an empty answer read as "the address has no history": the watermark is dropped
GetRecentEmpty_forgets(m) ==
    /\ mon[m].pc = "fetch"
    /\ mon' = [mon EXCEPT ![m].pc = "after", ![m].result = None,
                          ![m].last_sigs[mon[m].uid] = None,
                          ![m].outcome = "no_info"]
    /\ UNCHANGED << sweepVars, dbVars, keyVars, chain, histVars, faults >>

\* the signature query raises or answers nothing: no information this cycle
GetRecentEmpty(m) ==
    /\ mon[m].pc = "fetch"
    /\ mon' = [mon EXCEPT ![m].pc = "after", ![m].result = mon[m].last_signature,
                          ![m].outcome = "no_info"]
    /\ UNCHANGED << sweepVars, dbVars, keyVars, chain, histVars, faults >>

\* a loop over the answer as it came, newest first
GetRecent_newest_first(m) ==
    /\ mon[m].pc = "fetch"
    /\ LET txs == get_recent_transactions(mon[m].dep_addr, RECENT_LIMIT)
       IN  /\ txs # << >>
           /\ mon' = [mon EXCEPT ![m].pc = "for_tx",
                                 ![m].todo = txs,
                                 ![m].new_sig = None]
    /\ UNCHANGED << sweepVars, dbVars, keyVars, chain, histVars, faults >>

GetRecent(m) ==
    /\ mon[m].pc = "fetch"
    /\ LET txs == get_recent_transactions(mon[m].dep_addr, RECENT_LIMIT)
       IN  /\ txs # << >>
           /\ mon' = [mon EXCEPT ![m].pc = "for_tx",
                                 ![m].todo = Reverse(txs),
                                 ![m].new_sig = None]
    /\ UNCHANGED << sweepVars, dbVars, keyVars, chain, histVars, faults >>

NewOrLast(m) == IF mon[m].new_sig # None THEN mon[m].new_sig ELSE mon[m].last_signature

ForTx(m) ==
    /\ mon[m].pc = "for_tx"
    /\ IF mon[m].todo = << >>
       THEN mon' = [mon EXCEPT ![m].pc = "after", ![m].result = NewOrLast(m)]
       ELSE IF mon[m].last_signature # None /\ Head(mon[m].todo) = mon[m].last_signature
            THEN mon' = [mon EXCEPT ![m].pc = "after", ![m].result = NewOrLast(m),
                                    ![m].todo = << >>]
            ELSE mon' = [mon EXCEPT ![m].pc = "pt_check"]
    /\ UNCHANGED << sweepVars, dbVars, keyVars, chain, histVars, faults >>

\* ----------------------------------------------------- payment_monitor_loop
PollUsers(m) ==
    /\ mon[m].pc = "sleep"
    /\ mon' = [mon EXCEPT ![m].pc = "for_user", ![m].users = get_all_users]
    /\ UNCHANGED << sweepVars, dbVars, keyVars, chain, histVars, faults >>

\* get_all_users(limit): the newest `limit` rows (ORDER BY created_at DESC
\* LIMIT ?); the rows beyond the limit, the oldest accounts, are not returned.
get_all_users_limit(limit) ==
    SubSeq(get_all_users, 1, IF limit < Len(get_all_users) THEN limit ELSE Len(get_all_users))

\* The poll of a cycle when the users table holds more rows than the limit
\* the loop passes (limit=1000): the excess is one account here, so the
\* answer is every account but the oldest.
PollUsersOverLimit(m) ==
    /\ mon[m].pc = "sleep"
    /\ mon' = [mon EXCEPT ![m].pc = "for_user",
                          ![m].users = get_all_users_limit(NUsers - 1)]
    /\ UNCHANGED << sweepVars, dbVars, keyVars, chain, histVars, faults >>


ForUser(m) ==
    /\ mon[m].pc = "for_user"
    /\ IF mon[m].users = << >>
       THEN mon' = [mon EXCEPT ![m].pc = "sleep", ![m].uid = None,
                               ![m].dep_addr = None, ![m].last_signature = None,
                               ![m].new_sig = None, ![m].result = None,
                               ![m].outcome = "none", ![m].credited = FALSE]
       ELSE LET u == Head(mon[m].users)
            IN  IF u.deposit_address = None
                THEN mon' = [mon EXCEPT ![m].users = Tail(@)]
                ELSE mon' = [mon EXCEPT ![m].users = Tail(@),
                                        ![m].pc = "fetch",
                                        ![m].uid = u.id,
                                        ![m].dep_addr = u.deposit_address,
                                        ![m].last_signature = mon[m].last_sigs[u.id],
                                        ![m].new_sig = None,
                                        ![m].result = None,
                                        ![m].outcome = "none",
                                        ![m].credited = FALSE]
    /\ UNCHANGED << sweepVars, dbVars, keyVars, chain, histVars, faults >>

\* lines 217-233: the watermark is replaced and the user notified
AfterMonitor(m) ==
    /\ mon[m].pc = "after"
    /\ LET new_sig == mon[m].result
           uid == mon[m].uid
       IN  IF new_sig # None /\ new_sig # mon[m].last_sigs[uid]
           THEN /\ mon' = [mon EXCEPT ![m].pc = "for_user",
                                      ![m].last_sigs[uid] = new_sig]
                /\ notifications' =
                      IF get_transaction_by_signature(SigTag(new_sig))
                      THEN [notifications EXCEPT ![uid] = @ + 1]
                      ELSE notifications
           ELSE /\ mon' = [mon EXCEPT ![m].pc = "for_user"]
                /\ UNCHANGED notifications
    /\ UNCHANGED << sweepVars, dbVars, keyVars, chain, n_deposit_credit, n_bonus_credit,
                    delta_sum, faults >>

\* get_user_by_id or send_message raises: logged at line 232, the loop goes on
NotifyError(m) ==
    /\ mon[m].pc = "after"
    /\ faults < MaxFaults
    /\ LET new_sig == mon[m].result
           uid == mon[m].uid
       IN  /\ new_sig # None /\ new_sig # mon[m].last_sigs[uid]
           /\ get_transaction_by_signature(SigTag(new_sig))
           /\ mon' = [mon EXCEPT ![m].pc = "for_user", ![m].last_sigs[uid] = new_sig]
    /\ faults' = faults + 1
    /\ UNCHANGED << sweepVars, dbVars, keyVars, chain, histVars >>

\* an exception that is not caught at line 234 and ends the task
MonitorLoopError_fatal(m) ==
    /\ mon[m].pc = "after"
    /\ faults < MaxFaults
    /\ faults' = faults + 1
    /\ LET new_sig == mon[m].result
           uid == mon[m].uid
       IN  /\ new_sig # None /\ new_sig # mon[m].last_sigs[uid]
           /\ mon' = [mon EXCEPT ![m].pc = "dead",
                                 ![m].users = << >>,
                                 ![m].last_sigs[uid] = new_sig]
    /\ UNCHANGED << sweepVars, dbVars, keyVars, chain, histVars >>

\* get_transaction_by_signature of line 219 raises: the cycle is abandoned at
\* line 235, after the watermark was written
MonitorLoopError(m) ==
    /\ mon[m].pc = "after"
    /\ faults < MaxFaults
    /\ faults' = faults + 1
    /\ LET new_sig == mon[m].result
           uid == mon[m].uid
       IN  /\ new_sig # None /\ new_sig # mon[m].last_sigs[uid]
           /\ mon' = [mon EXCEPT ![m].pc = "sleep",
                                 ![m].users = << >>,
                                 ![m].last_sigs[uid] = new_sig]
    /\ UNCHANGED << sweepVars, dbVars, keyVars, chain, histVars >>

\* the monitor coroutine is suspended at one of its awaits: the signature
\* query, the transaction query, or a sleep
AtAwait(m) == mon[m].pc \in {"sleep", "for_user", "fetch", "pt_get"}

\* get_all_users of line 209 raises: line 234 logs it, and the loop sleeps
\* and tries again
PollUsersFails(m) ==
    /\ mon[m].pc = "sleep"
    /\ faults < MaxFaults
    /\ faults' = faults + 1
    /\ UNCHANGED << sweepVars, dbVars, keyVars, chain, mon, histVars >>

\* the process shuts down: on_shutdown only closes the bot session, and the
\* monitor task ends at the await it is suspended at: the sleep between two
\* cycles or after an account, the signature query or the detail query
Shutdown(m) ==
    /\ \/ mon[m].pc \in {"sleep", "fetch", "pt_get"}
       \/ mon[m].pc = "for_user" /\ mon[m].uid # None
    /\ mon' = [mon EXCEPT ![m].pc = "cancelled"]
    /\ UNCHANGED << sweepVars, dbVars, keyVars, chain, histVars, faults >>

\* -------------------------------------------------------------- buy_handler
Prices == {ToSol(p) : p \in 1 .. MaxPrice}

referral_discount(price_sol) == (price_sol * 5) \div 100

referral_commission(price_sol) == (price_sol * 5) \div 100

\* lines 316-351 run without an await: the bot process runs them only while
\* its monitor loop is suspended, and as one step
BuyHandler(u, price_sol) ==
    LET referrer_id == referred_by[u]
        final_price == IF referrer_id # None
                       THEN price_sol - referral_discount(price_sol)
                       ELSE price_sol
        order_id == next_order
        debit == update_balance(balance_sol, referral_earnings, transactions,
                                u, 0 - final_price)
        txs1 == record_transaction(transactions, u, OrderTag(order_id),
                                   final_price, "purchase")
        commission == referral_commission(price_sol)
        credit == update_balance(debit.balance_sol, debit.referral_earnings, txs1,
                                 referrer_id, commission)
    IN  /\ AtAwait(1)
        /\ next_order <= MaxOrders
        /\ ~(balance_sol[u] < final_price)
        /\ next_order' = next_order + 1
        /\ IF referrer_id # None
           THEN /\ balance_sol' = credit.balance_sol
                /\ referral_earnings' = credit.referral_earnings
                /\ delta_sum' = [delta_sum EXCEPT ![u] = @ - final_price,
                                                  ![referrer_id] = @ + commission]
                /\ transactions' = record_transaction(txs1, referrer_id,
                                        RefPurchaseTag(order_id), commission,
                                        "referral_commission")
           ELSE /\ balance_sol' = debit.balance_sol
                /\ referral_earnings' = debit.referral_earnings
                /\ delta_sum' = [delta_sum EXCEPT ![u] = @ - final_price]
                /\ transactions' = txs1
        /\ UNCHANGED << sweepVars, deposit_address, keyVars, chain, mon,
                        n_deposit_credit, n_bonus_credit, notifications, faults >>

\* -------------------------------------------------------------- sweep agent
\* the address MAIN_WALLET names when it is configured
Treasury == NUsers + MaxNewKeys + 1

SweepTag(tx_sig) == << "sweep_sig", tx_sig >>

SweepIdle == [pc |-> "idle", uid |-> None, min_retain_lamports |-> 0, pubkey |-> None,
              amount_to_transfer |-> 0, tx_sig |-> None, confirmed |-> FALSE,
              user_balance_sol |-> 0]

\* sweep_user_funds returns None; why is what it logged
NoResult(u, why) == [user_id |-> u, ok |-> FALSE, transferred_sol |-> 0, why |-> why]

SweepReturn(result) ==
    /\ sweep' = SweepIdle
    /\ sweep_results' = Append(sweep_results, result)

\* a sweep that does not look at MAIN_WALLET
SweepStart_unconfigured(u, r) ==
    /\ sweep.pc = "idle"
    /\ Len(sweep_results) < MaxSweeps
    /\ IF keypairs_file[u] = None
       THEN SweepReturn(NoResult(u, "no_keypair"))
       ELSE /\ sweep' = [SweepIdle EXCEPT !.pc = "get_balance", !.uid = u,
                                          !.min_retain_lamports = r,
                                          !.pubkey = keypairs_file[u]]
            /\ UNCHANGED sweep_results
    /\ UNCHANGED << batch, MAIN_WALLET, onchain, treasury, dbVars, keyVars, chain, mon,
                    histVars, faults >>

\* lines 247-271: the treasury address and the keypair of the account
SweepStart(u, r) ==
    /\ sweep.pc = "idle"
    /\ Len(sweep_results) < MaxSweeps
    /\ IF MAIN_WALLET = None
       THEN SweepReturn(NoResult(u, "no_wallet"))
       ELSE IF keypairs_file[u] = None
            THEN SweepReturn(NoResult(u, "no_keypair"))
            ELSE /\ sweep' = [SweepIdle EXCEPT !.pc = "get_balance", !.uid = u,
                                               !.min_retain_lamports = r,
                                               !.pubkey = keypairs_file[u]]
                 /\ UNCHANGED sweep_results
    /\ UNCHANGED << batch, MAIN_WALLET, onchain, treasury, dbVars, keyVars, chain, mon,
                    histVars, faults >>

\* a floor that lets a balance equal to min_retain through
AtOrBelowFloor_strict(lamports, min_retain_lamports) == lamports < min_retain_lamports

\* line 277
AtOrBelowFloor(lamports, min_retain_lamports) == lamports <= min_retain_lamports

\* a sweep that decides from the internal balance of the account
SweepGetBalance_ledger ==
    /\ sweep.pc = "get_balance"
    /\ LET lamports == balance_sol[sweep.uid] \div 100
       IN  IF AtOrBelowFloor(lamports, sweep.min_retain_lamports)
           THEN SweepReturn(NoResult(sweep.uid, "skipped"))
           ELSE /\ sweep' = [sweep EXCEPT !.pc = "send",
                                          !.amount_to_transfer =
                                              lamports - sweep.min_retain_lamports]
                /\ UNCHANGED sweep_results
    /\ UNCHANGED << batch, MAIN_WALLET, onchain, treasury, dbVars, keyVars, chain, mon,
                    histVars, faults >>

\* lines 275-281: the on-chain balance decides
SweepGetBalance ==
    /\ sweep.pc = "get_balance"
    /\ LET lamports == onchain[sweep.pubkey]
       IN  IF AtOrBelowFloor(lamports, sweep.min_retain_lamports)
           THEN SweepReturn(NoResult(sweep.uid, "skipped"))
           ELSE /\ sweep' = [sweep EXCEPT !.pc = "send",
                                          !.amount_to_transfer =
                                              lamports - sweep.min_retain_lamports]
                /\ UNCHANGED sweep_results
    /\ UNCHANGED << batch, MAIN_WALLET, onchain, treasury, dbVars, keyVars, chain, mon,
                    histVars, faults >>

\* get_balance raises: line 334
SweepGetBalanceFails ==
    /\ sweep.pc = "get_balance"
    /\ SweepReturn(NoResult(sweep.uid, "rpc_error"))
    /\ UNCHANGED << batch, MAIN_WALLET, onchain, treasury, dbVars, keyVars, chain, mon,
                    histVars, faults >>

\* lines 296-297: the transfer is submitted and a signature comes back
SweepSend ==
    /\ sweep.pc = "send"
    /\ sweep' = [sweep EXCEPT !.pc = "confirm", !.tx_sig = Len(sweep_results) + 1]
    /\ UNCHANGED << batch, MAIN_WALLET, onchain, treasury, sweep_results, dbVars, keyVars,
                    chain, mon, histVars, faults >>

\* send_transaction raises or answers no signature: lines 298-300 and 330-332
\* a submission that raised or answered no signature is taken as sent
SweepSendFails_recorded ==
    /\ sweep.pc = "send"
    /\ sweep' = [sweep EXCEPT !.pc = "record", !.tx_sig = Len(sweep_results) + 1]
    /\ UNCHANGED << batch, MAIN_WALLET, onchain, treasury, sweep_results, dbVars, keyVars,
                    chain, mon, histVars, faults >>

SweepSendFails ==
    /\ sweep.pc = "send"
    /\ SweepReturn(NoResult(sweep.uid, "send_failed"))
    /\ UNCHANGED << batch, MAIN_WALLET, onchain, treasury, dbVars, keyVars, chain, mon,
                    histVars, faults >>

\* a sweep that gives up when the confirmation raises
SweepConfirm_strict ==
    /\ sweep.pc = "confirm"
    /\ \E landed \in BOOLEAN, confirmed \in BOOLEAN :
          /\ confirmed => landed
          /\ IF landed
             THEN /\ onchain' = [onchain EXCEPT ![sweep.pubkey] =
                                     @ - sweep.amount_to_transfer]
                  /\ treasury' = treasury + sweep.amount_to_transfer
             ELSE UNCHANGED << onchain, treasury >>
          /\ IF confirmed
             THEN /\ sweep' = [sweep EXCEPT !.pc = "record", !.confirmed = confirmed]
                  /\ UNCHANGED sweep_results
             ELSE SweepReturn(NoResult(sweep.uid, "unconfirmed"))
    /\ UNCHANGED << batch, MAIN_WALLET, dbVars, keyVars, chain, mon, histVars, faults >>

\* lines 303-308: the transfer lands or not; a confirmation that raises is
\* only logged
SweepConfirm ==
    /\ sweep.pc = "confirm"
    /\ \E landed \in BOOLEAN, confirmed \in BOOLEAN :
          /\ confirmed => landed
          /\ IF landed
             THEN /\ onchain' = [onchain EXCEPT ![sweep.pubkey] =
                                     @ - sweep.amount_to_transfer]
                  /\ treasury' = treasury + sweep.amount_to_transfer
             ELSE UNCHANGED << onchain, treasury >>
          /\ sweep' = [sweep EXCEPT !.pc = "record", !.confirmed = confirmed]
    /\ UNCHANGED << batch, MAIN_WALLET, sweep_results, dbVars, keyVars, chain, mon,
                    histVars, faults >>

\* line 313
SweepRecord ==
    /\ sweep.pc = "record"
    /\ transactions' = record_transaction(transactions, sweep.uid, SweepTag(sweep.tx_sig),
                                          0 - ToSol(sweep.amount_to_transfer), "sweep")
    /\ sweep' = [sweep EXCEPT !.pc = "read_user"]
    /\ UNCHANGED << batch, MAIN_WALLET, onchain, treasury, sweep_results, balance_sol,
                    deposit_address, referral_earnings, next_order, keyVars, chain,
                    mon, histVars, faults >>

\* record_transaction raises: logged at line 315, the sweep goes on
SweepRecordFails ==
    /\ sweep.pc = "record"
    /\ faults < MaxFaults
    /\ faults' = faults + 1
    /\ sweep' = [sweep EXCEPT !.pc = "read_user"]
    /\ UNCHANGED << batch, MAIN_WALLET, onchain, treasury, sweep_results, dbVars, keyVars,
                    chain, mon, histVars >>

\* line 321
SweepReadUser ==
    /\ sweep.pc = "read_user"
    /\ sweep' = [sweep EXCEPT !.pc = "deduct", !.user_balance_sol = balance_sol[sweep.uid]]
    /\ UNCHANGED << batch, MAIN_WALLET, onchain, treasury, sweep_results, dbVars, keyVars,
                    chain, mon, histVars, faults >>

\* lines 322-328: the deduction is sized from the balance read at line 321
SweepDeduct ==
    /\ sweep.pc = "deduct"
    /\ LET sol_amt == ToSol(sweep.amount_to_transfer)
           amount == IF sweep.user_balance_sol < sol_amt
                     THEN 0 - sweep.user_balance_sol
                     ELSE 0 - sol_amt
           upd == update_balance(balance_sol, referral_earnings, transactions,
                                 sweep.uid, amount)
       IN  /\ balance_sol' = upd.balance_sol
           /\ referral_earnings' = upd.referral_earnings
           /\ delta_sum' = [delta_sum EXCEPT ![sweep.uid] = @ + amount]
           /\ SweepReturn([user_id |-> sweep.uid, ok |-> TRUE,
                           transferred_sol |-> sol_amt,
                           why |-> IF sweep.confirmed THEN "confirmed" ELSE "unconfirmed"])
    /\ UNCHANGED << batch, MAIN_WALLET, onchain, treasury, deposit_address, transactions,
                    next_order, keyVars, chain, mon, n_deposit_credit, n_bonus_credit,
                    notifications, faults >>

\* get_user_by_id or update_balance raises: caught at line 330
SweepDbFails ==
    /\ sweep.pc \in {"read_user", "deduct"}
    /\ faults < MaxFaults
    /\ faults' = faults + 1
    /\ SweepReturn(NoResult(sweep.uid, "db_error"))
    /\ UNCHANGED << batch, MAIN_WALLET, onchain, treasury, dbVars, keyVars, chain, mon,
                    histVars >>

\* manage.py add_balance_cmd: the operator credits an account by hand
AddBalance(u, amount) ==
    /\ balance_sol[u] + amount <= ToSol(MaxBalance)
    /\ LET upd == update_balance(balance_sol, referral_earnings, transactions, u, amount)
       IN  /\ balance_sol' = upd.balance_sol
           /\ referral_earnings' = upd.referral_earnings
    /\ delta_sum' = [delta_sum EXCEPT ![u] = @ + amount]
    /\ UNCHANGED << sweepVars, deposit_address, transactions, next_order, keyVars,
                    chain, mon, n_deposit_credit, n_bonus_credit, notifications, faults >>

\* ---------------------------------------------------------- sweep_all_users
BatchIdle == [pc |-> "idle", users |-> << >>, min_retain_lamports |-> 0,
              results |-> << >>, logged |-> None]

RECURSIVE SumTransferred(_)
SumTransferred(rs) ==
    IF rs = << >> THEN 0 ELSE Head(rs).transferred_sol + SumTransferred(Tail(rs))

\* lines 340-341: results = [], users = db.get_all_users(limit=limit)
SweepAllStart(r) ==
    /\ batch.pc = "idle"
    /\ sweep.pc = "idle"
    /\ batch' = [BatchIdle EXCEPT !.pc = "for_user", !.users = get_all_users,
                                  !.min_retain_lamports = r]
    /\ UNCHANGED << MAIN_WALLET, onchain, treasury, sweep, sweep_results, dbVars,
                    keyVars, chain, mon, histVars, faults >>

\* lines 346-347: an account without deposit address is passed over
SweepAllSkip ==
    /\ batch.pc = "for_user"
    /\ batch.users # << >>
    /\ Head(batch.users).deposit_address = None
    /\ batch' = [batch EXCEPT !.users = Tail(@)]
    /\ UNCHANGED << MAIN_WALLET, onchain, treasury, sweep, sweep_results, dbVars,
                    keyVars, chain, mon, histVars, faults >>

\* line 349: sweep_user_funds is entered for the account (lines 247-271)
SweepAllCall ==
    /\ batch.pc = "for_user"
    /\ batch.users # << >>
    /\ Head(batch.users).deposit_address # None
    /\ sweep.pc = "idle"
    /\ LET u == Head(batch.users).id
       IN  IF MAIN_WALLET = None
           THEN SweepReturn(NoResult(u, "no_wallet"))
           ELSE IF keypairs_file[u] = None
                THEN SweepReturn(NoResult(u, "no_keypair"))
                ELSE /\ sweep' = [SweepIdle EXCEPT
                                     !.pc = "get_balance", !.uid = u,
                                     !.min_retain_lamports = batch.min_retain_lamports,
                                     !.pubkey = keypairs_file[u]]
                     /\ UNCHANGED sweep_results
    /\ batch' = [batch EXCEPT !.pc = "await"]
    /\ UNCHANGED << MAIN_WALLET, onchain, treasury, dbVars, keyVars, chain, mon,
                    histVars, faults >>

\* lines 349-353: the call returned; a truthy result is kept, then the pause
\* of line 353 and the next account
SweepAllAwait ==
    /\ batch.pc = "await"
    /\ sweep.pc = "idle"
    /\ LET res == sweep_results[Len(sweep_results)]
       IN  batch' = [batch EXCEPT !.pc = "for_user",
                                  !.users = Tail(@),
                                  !.results = IF res.ok THEN Append(@, res) ELSE @]
    /\ UNCHANGED << MAIN_WALLET, onchain, treasury, sweep, sweep_results, dbVars,
                    keyVars, chain, mon, histVars, faults >>

\* lines 357-360: the total is summed, the number of successful sweeps and
\* the total are logged, and the list of results is returned
SweepAllEnd ==
    /\ batch.pc = "for_user"
    /\ batch.users = << >>
    /\ batch' = [batch EXCEPT
                    !.pc = "done",
                    !.logged = [successful_sweeps |-> Len(batch.results),
                                total_sol_swept |-> SumTransferred(batch.results)]]
    /\ UNCHANGED << MAIN_WALLET, onchain, treasury, sweep, sweep_results, dbVars,
                    keyVars, chain, mon, histVars, faults >>

SweepAllSteps ==
    \/ \E r \in 0 .. MaxRetain : SweepAllStart(r)
    \/ SweepAllSkip
    \/ SweepAllCall
    \/ SweepAllAwait
    \/ SweepAllEnd

\* ------------------------------------------------------------ specification
\* every account has been provisioned with the address of its own keypair
Init ==
    /\ balance_sol = [u \in Users |-> 0]
    /\ deposit_address = [u \in Users |-> u]
    /\ referral_earnings = [u \in Users |-> 0]
    /\ transactions = << >>
    /\ next_order = 1
    /\ keypairs_file = [u \in Users |-> u]
    /\ keypair_cache = [p \in Procs |-> [u \in Users |-> None]]
    /\ next_key = NUsers + 1
    /\ prov = [p \in Procs |-> ProvIdle]
    /\ returned = [u \in Users |-> << u >>]
    /\ chain = [s \in Sigs |-> NoTransfer]
    /\ mon = [m \in Monitors |-> MonStart]
    /\ n_deposit_credit = [s \in Sigs |-> [u \in Users |-> 0]]
    /\ n_bonus_credit = [s \in Sigs |-> [u \in Users |-> 0]]
    /\ notifications = [u \in Users |-> 0]
    /\ delta_sum = [u \in Users |-> 0]
    /\ faults = 0
    /\ MAIN_WALLET = Treasury
    /\ onchain = [k \in Keys |-> 0]
    /\ treasury = 0
    /\ sweep = SweepIdle
    /\ sweep_results = << >>
    /\ batch = BatchIdle

Chain ==
    \E s \in Sigs : ChainTransfer(s) \/ ChainFinalize(s)

MonitorSteps(m) ==
    \/ PollUsers(m)
    \/ ForUser(m)
    \/ GetRecentEmpty(m)
    \/ GetRecent(m)
    \/ ForTx(m)
    \/ PtCheck(m)
    \/ PtUnavailable(m)
    \/ PtDetail(m)
    \/ PtRecordDeposit(m)
    \/ PtCreditDeposit(m)
    \/ PtReferrer(m)
    \/ PtCreditBonus(m)
    \/ PtRecordBonus(m)
    \/ AfterMonitor(m)

MonitorFaults(m) ==
    \/ PtException(m)
    \/ NotifyError(m)
    \/ MonitorLoopError(m)
    \/ PollUsersFails(m)

\* one bot process: the chain and a single monitor loop
Next ==
    \/ Chain
    \/ MonitorSteps(1)
    \/ MonitorFaults(1)

Spec == Init /\ [][Next]_vars

\* two bot processes poll the same accounts; no call raises
RaceNext ==
    \/ Chain
    \/ \E m \in Monitors : MonitorSteps(m)

RaceSpec == Init /\ [][RaceNext]_vars

\* line 194 in any order: a restarted process has lost its watermarks
\* (line 205), so any signature in the history of a registered address is
\* presented to process_transaction again, any number of times
Present(m) ==
    /\ mon[m].pc \in {"sleep", "for_tx"}
    /\ \E u \in Users, s \in Sigs :
          /\ deposit_address[u] # None
          /\ deposit_address[u] \in chain[s].mentions
          /\ mon' = [mon EXCEPT ![m] = [MonStart EXCEPT !.pc = "pt_check",
                                                        !.uid = u,
                                                        !.dep_addr = deposit_address[u],
                                                        !.todo = << s >>]]
    /\ UNCHANGED << sweepVars, dbVars, keyVars, chain, histVars, faults >>

ProcessTransaction(m) ==
    \/ PtCheck(m)
    \/ PtUnavailable(m)
    \/ PtDetail(m)
    \/ PtRecordDeposit(m)
    \/ PtCreditDeposit(m)
    \/ PtReferrer(m)
    \/ PtCreditBonus(m)
    \/ PtRecordBonus(m)

\* one process attributes signatures one after another; no storage call raises
AttribNext ==
    \/ Chain
    \/ Present(1)
    \/ ProcessTransaction(1)

AttribSpec == Init /\ [][AttribNext]_vars

\* the bot process serves purchases next to its monitor loop; no call raises
ShopNext ==
    \/ Chain
    \/ MonitorSteps(1)
    \/ \E u \in Users, price_sol \in Prices : BuyHandler(u, price_sol)

ShopSpec == Init /\ [][ShopNext]_vars

\* the event loop keeps running the monitor task, and the chain interface
\* keeps answering: the signature query of every account and the detail
\* query of every signature succeed again and again; no storage call raises
LiveNext ==
    \/ Chain
    \/ MonitorSteps(1)

FairSpec ==
    /\ Init /\ [][LiveNext]_vars
    /\ WF_vars(MonitorSteps(1))
    /\ \A u \in Users : SF_vars(GetRecent(1) /\ mon[1].uid = u)
    /\ \A s \in Sigs : SF_vars(PtDetail(1) /\ CurSig(1) = s)

\* a finalized deposit of MaxLamports lands on a registered address
ChainDeposit(s) ==
    /\ ~OnChain(s)
    /\ \A t \in Sigs : t < s => OnChain(t)
    /\ \E a \in RegisteredAddresses :
          chain' = [chain EXCEPT ![s] =
              [mentions |-> {a},
               account_keys |-> {a},
               pre_balances |-> [k \in Keys |-> 0],
               post_balances |-> [k \in Keys |-> IF k = a THEN MaxLamports ELSE 0],
               final |-> TRUE]]
    /\ UNCHANGED << sweepVars, dbVars, keyVars, mon, histVars, faults >>

\* one monitor loop whose calls may raise, fed with plain deposits
LoopNext ==
    \/ \E s \in Sigs : ChainDeposit(s)
    \/ MonitorSteps(1)
    \/ MonitorFaults(1)

LoopSpec == Init /\ [][LoopNext]_vars

\* the event loop keeps running the monitor task
FairLoopSpec == LoopSpec /\ WF_vars(MonitorSteps(1))

\* one monitor loop fed with plain deposits; no call raises
CycleNext ==
    \/ \E s \in Sigs : ChainDeposit(s)
    \/ MonitorSteps(1)

CycleSpec == Init /\ [][CycleNext]_vars

\* the process may be shut down while its monitor loop runs; no call raises
ShutdownNext ==
    \/ Chain
    \/ MonitorSteps(1)
    \/ Shutdown(1)

ShutdownSpec == Init /\ [][ShutdownNext]_vars

\* no account has an address yet
AddrInit ==
    /\ balance_sol = [u \in Users |-> 0]
    /\ deposit_address = [u \in Users |-> None]
    /\ referral_earnings = [u \in Users |-> 0]
    /\ transactions = << >>
    /\ next_order = 1
    /\ keypairs_file = NoKeypairs
    /\ keypair_cache = [p \in Procs |-> NoKeypairs]
    /\ next_key = 1
    /\ prov = [p \in Procs |-> ProvIdle]
    /\ returned = [u \in Users |-> << >>]
    /\ chain = [s \in Sigs |-> NoTransfer]
    /\ mon = [m \in Monitors |-> MonStart]
    /\ n_deposit_credit = [s \in Sigs |-> [u \in Users |-> 0]]
    /\ n_bonus_credit = [s \in Sigs |-> [u \in Users |-> 0]]
    /\ notifications = [u \in Users |-> 0]
    /\ delta_sum = [u \in Users |-> 0]
    /\ faults = 0
    /\ MAIN_WALLET = Treasury
    /\ onchain = [k \in Keys |-> 0]
    /\ treasury = 0
    /\ sweep = SweepIdle
    /\ sweep_results = << >>
    /\ batch = BatchIdle

ProvSteps(p) ==
    \/ ProvGetKeypair(p, keypairs_file)
    \/ ProvGenerate(p, keypairs_file)
    \/ ProvSave(p)
    \/ ProvUpdate(p)
    \/ Restart(p)

ProvFaults(p) ==
    \/ faults < MaxFaults /\ ProvGetKeypair(p, NoKeypairs)
    \/ faults < MaxFaults /\ ProvGenerate(p, NoKeypairs)
    \/ ProvSaveFails(p)
    \/ ProvUpdateFails(p)

\* the bot process and the API process provision addresses concurrently;
\* no file or storage call fails
AddrRaceNext ==
    \/ \E p \in Procs, u \in Users : ProvStart(p, u)
    \/ \E p \in Procs : ProvSteps(p)

AddrRaceSpec == AddrInit /\ [][AddrRaceNext]_vars

\* a call starts only when no other call is in progress
ProvStartSeq(p, u) ==
    /\ \A q \in Procs : prov[q].pc = "idle"
    /\ ProvStart(p, u)

\* calls follow one another; file and storage calls may fail
AddrSeqNext ==
    \/ \E p \in Procs, u \in Users : ProvStartSeq(p, u)
    \/ \E p \in Procs : ProvSteps(p)
    \/ \E p \in Procs : ProvFaults(p)

AddrSeqSpec == AddrInit /\ [][AddrSeqNext]_vars

\* every account is provisioned; the environment names a treasury or not, and
\* the addresses of the accounts hold some lamports
SweepInit ==
    /\ balance_sol = [u \in Users |-> 0]
    /\ deposit_address = [u \in Users |-> u]
    /\ referral_earnings = [u \in Users |-> 0]
    /\ transactions = << >>
    /\ next_order = 1
    /\ keypairs_file = [u \in Users |-> u]
    /\ keypair_cache = [p \in Procs |-> [u \in Users |-> None]]
    /\ next_key = NUsers + 1
    /\ prov = [p \in Procs |-> ProvIdle]
    /\ returned = [u \in Users |-> << u >>]
    /\ chain = [s \in Sigs |-> NoTransfer]
    /\ mon = [m \in Monitors |-> MonStart]
    /\ n_deposit_credit = [s \in Sigs |-> [u \in Users |-> 0]]
    /\ n_bonus_credit = [s \in Sigs |-> [u \in Users |-> 0]]
    /\ notifications = [u \in Users |-> 0]
    /\ delta_sum = [u \in Users |-> 0]
    /\ faults = 0
    /\ MAIN_WALLET \in {None, Treasury}
    /\ onchain \in {f \in [Keys -> 0 .. MaxOnChain] : \A k \in Keys \ Users : f[k] = 0}
    /\ treasury = 0
    /\ sweep = SweepIdle
    /\ sweep_results = << >>
    /\ batch = BatchIdle

SweepSteps ==
    \/ \E u \in Users, r \in 0 .. MaxRetain : SweepStart(u, r)
    \/ SweepGetBalance
    \/ SweepGetBalanceFails
    \/ SweepSend
    \/ SweepSendFails
    \/ SweepConfirm
    \/ SweepRecord
    \/ SweepReadUser
    \/ SweepDeduct

SweepFaults ==
    \/ SweepRecordFails
    \/ SweepDbFails

\* sweeps run in a process of their own, next to the purchases of the bot
\* process and the credits of the operator
SweepNext ==
    \/ SweepSteps
    \/ SweepFaults
    \/ \E u \in Users, price_sol \in Prices : BuyHandler(u, price_sol)
    \/ \E u \in Users, a \in 1 .. MaxLamports : AddBalance(u, ToSol(a))

SweepSpec == SweepInit /\ [][SweepNext]_vars

\* the sweep agent alone; storage calls may raise
SweepSoloNext ==
    \/ SweepSteps
    \/ SweepFaults

SweepSoloSpec == SweepInit /\ [][SweepSoloNext]_vars

\* a treasury is configured and every address holds MaxOnChain lamports
BalanceInit ==
    /\ balance_sol = [u \in Users |-> 0]
    /\ deposit_address = [u \in Users |-> u]
    /\ referral_earnings = [u \in Users |-> 0]
    /\ transactions = << >>
    /\ next_order = 1
    /\ keypairs_file = [u \in Users |-> u]
    /\ keypair_cache = [p \in Procs |-> [u \in Users |-> None]]
    /\ next_key = NUsers + 1
    /\ prov = [p \in Procs |-> ProvIdle]
    /\ returned = [u \in Users |-> << u >>]
    /\ chain = [s \in Sigs |-> NoTransfer]
    /\ mon = [m \in Monitors |-> MonStart]
    /\ n_deposit_credit = [s \in Sigs |-> [u \in Users |-> 0]]
    /\ n_bonus_credit = [s \in Sigs |-> [u \in Users |-> 0]]
    /\ notifications = [u \in Users |-> 0]
    /\ delta_sum = [u \in Users |-> 0]
    /\ faults = 0
    /\ MAIN_WALLET = Treasury
    /\ onchain = [k \in Keys |-> IF k \in Users THEN MaxOnChain ELSE 0]
    /\ treasury = 0
    /\ sweep = SweepIdle
    /\ sweep_results = << >>
    /\ batch = BatchIdle

\* the sweep process and the operator change balances side by side
BalanceNext ==
    \/ SweepSteps
    \/ \E u \in Users, a \in 1 .. MaxLamports : AddBalance(u, ToSol(a))

BalanceSpec == BalanceInit /\ [][BalanceNext]_vars

\* one finalized deposit of MaxLamports to the address of the referred
\* account 2 is on the chain, a treasury is configured and every address
\* holds MaxOnChain lamports
LedgerInit ==
    /\ balance_sol = [u \in Users |-> 0]
    /\ deposit_address = [u \in Users |-> u]
    /\ referral_earnings = [u \in Users |-> 0]
    /\ transactions = << >>
    /\ next_order = 1
    /\ keypairs_file = [u \in Users |-> u]
    /\ keypair_cache = [p \in Procs |-> [u \in Users |-> None]]
    /\ next_key = NUsers + 1
    /\ prov = [p \in Procs |-> ProvIdle]
    /\ returned = [u \in Users |-> << u >>]
    /\ chain = [s \in Sigs |->
                   IF s = 1
                   THEN [mentions |-> {2},
                         account_keys |-> {2},
                         pre_balances |-> [k \in Keys |-> 0],
                         post_balances |-> [k \in Keys |-> IF k = 2 THEN MaxLamports ELSE 0],
                         final |-> TRUE]
                   ELSE NoTransfer]
    /\ mon = [m \in Monitors |-> MonStart]
    /\ n_deposit_credit = [s \in Sigs |-> [u \in Users |-> 0]]
    /\ n_bonus_credit = [s \in Sigs |-> [u \in Users |-> 0]]
    /\ notifications = [u \in Users |-> 0]
    /\ delta_sum = [u \in Users |-> 0]
    /\ faults = 0
    /\ MAIN_WALLET = Treasury
    /\ onchain = [k \in Keys |-> IF k \in Users THEN MaxOnChain ELSE 0]
    /\ treasury = 0
    /\ sweep = SweepIdle
    /\ sweep_results = << >>
    /\ batch = BatchIdle

\* two attributors, the purchases of the bot process and a sweep process that
\* empties the address of account 2 write the ledger side by side; no storage
\* call raises
LedgerNext ==
    \/ \E m \in Monitors : Present(m) \/ ProcessTransaction(m)
    \/ \E u \in Users, price_sol \in Prices : BuyHandler(u, price_sol)
    \/ SweepStart(2, 0)
    \/ SweepGetBalance
    \/ SweepGetBalanceFails
    \/ SweepSend
    \/ SweepSendFails
    \/ SweepConfirm
    \/ SweepRecord
    \/ SweepReadUser
    \/ SweepDeduct

LedgerSpec == LedgerInit /\ [][LedgerNext]_vars

\* one finalized transfer pays two registered addresses at once
ChainTransferShared(s) ==
    /\ ~OnChain(s)
    /\ \A t \in Sigs : t < s => OnChain(t)
    /\ \E a, b \in RegisteredAddresses :
          /\ a # b
          /\ chain' = [chain EXCEPT ![s] =
                 [mentions |-> {a, b},
                  account_keys |-> {a, b},
                  pre_balances |-> [k \in Keys |-> 0],
                  post_balances |-> [k \in Keys |-> IF k \in {a, b} THEN MaxLamports ELSE 0],
                  final |-> TRUE]]
    /\ UNCHANGED << sweepVars, dbVars, keyVars, mon, histVars, faults >>

\* one monitor loop fed with transfers that pay two accounts; no call raises
SharedNext ==
    \/ \E s \in Sigs : ChainTransferShared(s)
    \/ MonitorSteps(1)

SharedSpec == Init /\ [][SharedNext]_vars

\* One monitor, no fault, and a users table that may hold more rows than the
\* limit of the poll.
CrowdNext ==
    \/ \E s \in Sigs : ChainDeposit(s)
    \/ MonitorSteps(1)
    \/ PollUsersOverLimit(1)

CrowdSpec == Init /\ [][CrowdNext]_vars

\* The sweep alone, the treasury configured, every address funded and every
\* account credited by hand (add_balance_cmd writes no entry); the key store
\* holds the keypair of any subset of the accounts.
KeySweepInit ==
    /\ balance_sol = [u \in Users |-> ToSol(MaxOnChain)]
    /\ deposit_address = [u \in Users |-> u]
    /\ referral_earnings = [u \in Users |-> 0]
    /\ transactions = << >>
    /\ next_order = 1
    /\ keypairs_file \in [Users -> {None} \cup Users]
    /\ \A u \in Users : keypairs_file[u] \in {None, u}
    /\ keypair_cache = [p \in Procs |-> [u \in Users |-> None]]
    /\ next_key = NUsers + 1
    /\ prov = [p \in Procs |-> ProvIdle]
    /\ returned = [u \in Users |-> << u >>]
    /\ chain = [s \in Sigs |-> NoTransfer]
    /\ mon = [m \in Monitors |-> MonStart]
    /\ n_deposit_credit = [s \in Sigs |-> [u \in Users |-> 0]]
    /\ n_bonus_credit = [s \in Sigs |-> [u \in Users |-> 0]]
    /\ notifications = [u \in Users |-> 0]
    /\ delta_sum = [u \in Users |-> 0]
    /\ faults = 0
    /\ MAIN_WALLET = Treasury
    /\ onchain = [k \in Keys |-> IF k \in Users THEN MaxOnChain ELSE 0]
    /\ treasury = 0
    /\ sweep = SweepIdle
    /\ sweep_results = << >>
    /\ batch = BatchIdle

KeySweepSpec == KeySweepInit /\ [][SweepSoloNext]_vars

\* sweep_all_users alone: any subset of the accounts has a deposit address
\* and its keypair, the addresses hold any amounts, the treasury is
\* configured or not.
BatchInit ==
    /\ balance_sol = [u \in Users |-> 0]
    /\ deposit_address \in [Users -> {None} \cup Users]
    /\ \A u \in Users : deposit_address[u] \in {None, u}
    /\ referral_earnings = [u \in Users |-> 0]
    /\ transactions = << >>
    /\ next_order = 1
    /\ keypairs_file = deposit_address
    /\ keypair_cache = [p \in Procs |-> [u \in Users |-> None]]
    /\ next_key = NUsers + 1
    /\ prov = [p \in Procs |-> ProvIdle]
    /\ returned = [u \in Users |-> IF deposit_address[u] = None THEN << >> ELSE << u >>]
    /\ chain = [s \in Sigs |-> NoTransfer]
    /\ mon = [m \in Monitors |-> MonStart]
    /\ n_deposit_credit = [s \in Sigs |-> [u \in Users |-> 0]]
    /\ n_bonus_credit = [s \in Sigs |-> [u \in Users |-> 0]]
    /\ notifications = [u \in Users |-> 0]
    /\ delta_sum = [u \in Users |-> 0]
    /\ faults = 0
    /\ MAIN_WALLET \in {None, Treasury}
    /\ onchain \in {f \in [Keys -> 0 .. MaxOnChain] :
                       \A k \in Keys : k \notin Users \/ deposit_address[k] = None
                                       => f[k] = 0}
    /\ treasury = 0
    /\ sweep = SweepIdle
    /\ sweep_results = << >>
    /\ batch = BatchIdle

BatchNext ==
    \/ SweepAllSteps
    \/ SweepGetBalance
    \/ SweepGetBalanceFails
    \/ SweepSend
    \/ SweepSendFails
    \/ SweepConfirm
    \/ SweepRecord
    \/ SweepReadUser
    \/ SweepDeduct
    \/ SweepFaults

BatchSpec == BatchInit /\ [][BatchNext]_vars

\* -------------------------------------------------------------- properties
EntriesTagged(tag) ==
    {i \in 1 .. Len(transactions) : transactions[i].tx_signature = tag}

DepositEntriesOf(s, u) ==
    {i \in EntriesTagged(SigTag(s)) :
        transactions[i].user_id = u /\ transactions[i].tx_type = "deposit"}

InAttribution(m) ==
    mon[m].pc \in {"pt_check", "pt_get", "pt_record", "pt_credit", "pt_user",
                   "pt_bonus", "pt_bonus_record"}

Unavailable(s, a) == ~chain[s].final \/ a \notin chain[s].account_keys

\* C1: when two attributors process the same signature concurrently, the
\* ledger holds one deposit entry for it and the balance is credited for it
\* exactly once; once no attributor is working on the signature, the entry
\* and the single credit are both there.
C1_ExactlyOneConcurrentCredit ==
    \A s \in Sigs, u \in Users :
        /\ Cardinality(EntriesTagged(SigTag(s))) <= 1
        /\ n_deposit_credit[s][u] <= 1
        /\ (\A m \in Monitors : ~(InAttribution(m) /\ CurSig(m) = s))
              => n_deposit_credit[s][u] = Cardinality(DepositEntriesOf(s, u))

\* C2: a signature has at most one ledger entry and one balance credit, and
\* an attribution that starts after the signature was credited inserts no
\* entry, changes no balance and returns nothing, as already processed
\* (unless the lookup itself raised).
C2_SequentialIdempotence ==
    /\ [](\A s \in Sigs, u \in Users :
            /\ Cardinality(EntriesTagged(SigTag(s))) <= 1
            /\ n_deposit_credit[s][u] <= 1)
    /\ [][(/\ mon[1].pc = "pt_check"
           /\ n_deposit_credit[CurSig(1)][mon[1].uid] >= 1
           /\ mon'[1] # mon[1])
          => /\ transactions' = transactions
             /\ balance_sol' = balance_sol
             /\ n_deposit_credit' = n_deposit_credit
             /\ mon'[1].pc = "for_tx"
             /\ mon'[1].new_sig = mon[1].new_sig
             /\ mon'[1].outcome = IF faults' = faults THEN "already" ELSE "failed"]_vars

C2_Witness ==
    /\ mon[1].pc = "for_tx"
    /\ mon[1].outcome = "already"
    /\ faults = 0
    /\ \E s \in Sigs : n_deposit_credit[s][mon[1].uid] = 1

\* C6: every deposit entry has a strictly positive amount, and a transfer
\* whose net amount at the address of an account is zero or negative has no
\* deposit entry and no balance credit for that account.
C6_NoNonPositiveDeposit ==
    /\ \A i \in 1 .. Len(transactions) :
          transactions[i].tx_type = "deposit" => transactions[i].amount_sol > 0
    /\ \A s \in Sigs, u \in Users :
          (/\ deposit_address[u] \in chain[s].account_keys
           /\ lamports_received(chain[s], deposit_address[u]) <= 0)
          => /\ DepositEntriesOf(s, u) = {}
             /\ n_deposit_credit[s][u] = 0

C6_Witness ==
    /\ mon[1].outcome = "no_deposit"
    /\ \E s \in Sigs :
          /\ chain[s].final
          /\ mon[1].dep_addr \in chain[s].account_keys
          /\ lamports_received(chain[s], mon[1].dep_addr) <= 0

\* C7: while the settlement detail of a transfer is not available it has no
\* entry and no credit, and the watermark of the account stays behind it.
C7_WatermarkBehindUnresolved ==
    \A s \in Sigs, u \in Users :
        (/\ deposit_address[u] \in chain[s].mentions
         /\ Unavailable(s, deposit_address[u]))
        => /\ DepositEntriesOf(s, u) = {}
           /\ n_deposit_credit[s][u] = 0
           /\ mon[1].last_sigs[u] # None => mon[1].last_sigs[u] < s

\* C8: the watermark of an account is only ever replaced by a newer signature.
C8_WatermarkMonotonic ==
    [][\A u \in Users :
          mon[1].last_sigs[u] # None => mon'[1].last_sigs[u] >= mon[1].last_sigs[u]]_vars

EntriesOf(u) == SelectSeq(transactions, LAMBDA e : e.user_id = u)

\* C3: whenever no attribution is in progress, the balance of every account
\* equals the sum of the signed amounts of its ledger entries.
C3_Conservation ==
    (\A m \in Monitors : ~InAttribution(m))
    => \A u \in Users : balance_sol[u] = SumAmounts(EntriesOf(u))

\* C5: once the attribution of a deposit to an account with a referrer is
\* over, there is one deposit entry of amount A and one balance credit for
\* the account, and one referral_bonus entry of A * bonus_pct / 100 and one
\* balance credit for the referrer, also after a failed and repeated run.
C5_ReferralFanOut ==
    \A s \in Sigs, u \in Users :
        (/\ referred_by[u] # None
         /\ DepositEntriesOf(s, u) # {}
         /\ ~(InAttribution(1) /\ CurSig(1) = s /\ mon[1].uid = u))
        => /\ Cardinality(DepositEntriesOf(s, u)) = 1
           /\ n_deposit_credit[s][u] = 1
           /\ n_bonus_credit[s][u] = 1
           /\ \E i \in EntriesTagged(ReferralTag(s)) :
                 /\ EntriesTagged(ReferralTag(s)) = {i}
                 /\ transactions[i].user_id = referred_by[u]
                 /\ transactions[i].tx_type = "referral_bonus"
                 /\ \A j \in DepositEntriesOf(s, u) :
                       transactions[i].amount_sol * 100 =
                           transactions[j].amount_sol * referral_bonus_percent

\* C4: a finalized transfer with positive net amount at the registered
\* address of an account, returned among the recent transfers of the address,
\* eventually has its deposit entry.
C4_NoDepositLost ==
    \A s \in Sigs, u \in Users :
        (/\ chain[s].final
         /\ deposit_address[u] \in chain[s].account_keys
         /\ lamports_received(chain[s], deposit_address[u]) > 0
         /\ \E i \in 1 .. Len(get_recent_transactions(deposit_address[u], RECENT_LIMIT)) :
               get_recent_transactions(deposit_address[u], RECENT_LIMIT)[i] = s)
        ~> (DepositEntriesOf(s, u) # {})

\* C9: in sequential use, every call for an account returns the same
\* address, that address is the one registered on the account, and a
\* registered address never changes.
C9_ProvisioningIdempotent ==
    /\ [](\A u \in Users :
            /\ \A i \in 1 .. Len(returned[u]) : returned[u][i] = returned[u][1]
            /\ returned[u] # << >> => deposit_address[u] = returned[u][1])
    /\ [][\A u \in Users :
            deposit_address[u] # None => deposit_address'[u] = deposit_address[u]]_vars

\* a second call returned after every cache was lost
C9_Witness ==
    \E u \in Users :
        /\ Len(returned[u]) >= 2
        /\ \A p \in Procs : keypair_cache[p][u] = None /\ prov[p].pc = "idle"

\* C10: under concurrent calls all callers of one account get the same
\* address, which is the one on the account and the one in the keystore.
C10_OneAddressPerAccount ==
    \A u \in Users :
        /\ \A i \in 1 .. Len(returned[u]) : returned[u][i] = returned[u][1]
        /\ returned[u] # << >> =>
              /\ deposit_address[u] = returned[u][1]
              /\ keypairs_file[u] = returned[u][1]


\* C11: every address that is registered on an account, returned to a caller
\* or held in the keypair cache of a process is the public key of the keypair
\* the keystore file holds under that account id.
C11_KeystoreBacked ==
    \A u \in Users :
        /\ deposit_address[u] # None => keypairs_file[u] = deposit_address[u]
        /\ \A i \in 1 .. Len(returned[u]) : keypairs_file[u] = returned[u][i]
        /\ \A p \in Procs :
              keypair_cache[p][u] # None => keypairs_file[u] = keypair_cache[p][u]

LastResult == sweep_results[Len(sweep_results)]

SweepEntries == {i \in 1 .. Len(transactions) : transactions[i].tx_type = "sweep"}

\* C12: a sweep that reads an on-chain balance at or below min_retain ends
\* there with no result: it submits no transfer, creates no ledger entry and
\* changes no balance; a sweep that goes on to submit has a positive amount.
C12_SweepFloor ==
    /\ [](sweep.pc \in {"send", "confirm", "record", "read_user", "deduct"}
            => sweep.amount_to_transfer > 0)
    /\ [][(/\ sweep.pc = "get_balance"
           /\ onchain[sweep.pubkey] <= sweep.min_retain_lamports
           /\ sweep' # sweep)
          => /\ sweep' = SweepIdle
             /\ Len(sweep_results') = Len(sweep_results) + 1
             /\ ~sweep_results'[Len(sweep_results')].ok
             /\ transactions' = transactions
             /\ balance_sol' = balance_sol
             /\ onchain' = onchain
             /\ treasury' = treasury]_vars

\* a sweep skipped an address that holds exactly the retained minimum
C12_Witness ==
    /\ sweep_results # << >>
    /\ LastResult.why = "skipped"
    /\ sweep.pc = "idle"
    /\ onchain[keypairs_file[LastResult.user_id]] = MaxRetain

C14_NoTreasuryNoAction ==
    /\ [](MAIN_WALLET = None
            => /\ sweep = SweepIdle
               /\ treasury = 0
               /\ SweepEntries = {}
               /\ \A i \in 1 .. Len(sweep_results) :
                     ~sweep_results[i].ok /\ sweep_results[i].why = "no_wallet")
    /\ [][(MAIN_WALLET = None /\ sweep_results' # sweep_results)
          => /\ transactions' = transactions
             /\ balance_sol' = balance_sol
             /\ onchain' = onchain]_vars

C14_Witness ==
    /\ MAIN_WALLET = None
    /\ Len(sweep_results) = MaxSweeps
    /\ \E k \in Keys : onchain[k] > MaxRetain

\* C15: the balance of every account is its initial balance, zero, plus the
\* sum of the amounts of all update_balance calls made for it, whichever
\* processes made them and in whatever order.
C15_AtomicBalance ==
    \A u \in Users : balance_sol[u] = delta_sum[u]

\* a sweep is about to deduct from an account that was credited by hand before
\* the sweep read its balance and again after it
C15_Witness ==
    /\ sweep.pc = "deduct"
    /\ sweep.user_balance_sol > 0
    /\ balance_sol[sweep.uid] > sweep.user_balance_sol


\* C16: within one monitor cycle a failure met while one account is processed
\* (chain query error, attribution exception, ledger lookup error,
\* notification failure) leaves the accounts still to be polled in that
\* cycle in place: the list of remaining accounts only ever loses its head,
\* to the step that starts polling that account
C16_FailureIsolation ==
    [][mon[1].users # << >> =>
          \/ mon'[1].users = mon[1].users
          \/ /\ mon'[1].users = Tail(mon[1].users)
             /\ \/ Head(mon[1].users).deposit_address = None
                \/ /\ mon'[1].uid = Head(mon[1].users).id
                   /\ mon'[1].pc = "fetch"]_vars

\* C17: the monitor loop never terminates: it is always at one of the
\* positions of its cycle, an exception raised in the loop body takes it to
\* the wait of line 236, and a new cycle is started again and again
C17_LoopNeverTerminates ==
    /\ [](mon[1].pc \in {"sleep", "for_user", "fetch", "after", "for_tx", "pt_check",
                         "pt_get", "pt_record", "pt_credit", "pt_user",
                         "pt_bonus", "pt_bonus_record"})
    /\ [][faults' > faults /\ mon[1].pc = "after" /\ mon'[1].users # mon[1].users
            => mon'[1].pc = "sleep"]_vars
    /\ []<><<PollUsers(1)>>_vars

\* a cycle was started after a cycle that an exception had cut short
C17_Witness ==
    /\ mon[1].pc = "for_user"
    /\ Len(mon[1].users) = NUsers
    /\ mon[1].uid # None
    /\ notifications = [u \in Users |-> 0]
    /\ faults > 0

\* C18: when the process is shut down the monitor loop stops between two
\* cycles: no account of the cycle in flight is left unpolled and no
\* account is left half processed
C18_CooperativeShutdown ==
    mon[1].pc = "cancelled" =>
        /\ mon[1].users = << >>
        /\ mon[1].uid = None
        /\ mon[1].todo = << >>

C20_NoEntryNoCredit ==
    [][\A m \in Monitors :
          mon[m].pc = "pt_credit" /\ mon[m].outcome = "duplicate" /\ mon'[m] # mon[m]
          => /\ balance_sol'[mon[m].uid] = balance_sol[mon[m].uid]
             /\ n_deposit_credit' = n_deposit_credit]_vars

\* the transfers that mention address a
HistoryOf(a) == {s \in Sigs : a \in chain[s].mentions}

\* the turn of account mon[1].uid is over, the history of its address is the
\* one finalized transfer s with a positive net amount, the detail query for
\* it was answered in this turn and no call raised, and the account has no
\* entry from before
FreshDeposit(s) ==
    /\ mon[1].pc = "after"
    /\ HistoryOf(mon[1].dep_addr) = {s}
    /\ chain[s].final
    /\ mon[1].dep_addr \in chain[s].account_keys
    /\ lamports_received(chain[s], mon[1].dep_addr) > 0
    /\ mon[1].outcome \notin {"none", "no_info", "rpc_error", "no_value", "no_meta", "failed"}
    /\ \A i \in 1 .. Len(transactions) :
          transactions[i].user_id = mon[1].uid => transactions[i].tx_signature = SigTag(s)

\* C21: a cycle that sees the one finalized transfer s of positive net amount
\* A at the address of an account without entries leaves exactly one entry
\* tagged s, a deposit of +A owned by that account, the balance of the
\* account at A, and its watermark at s
C21_FreshDeposit ==
    [][\A s \in Sigs :
          FreshDeposit(s) /\ mon'[1] # mon[1] =>
             LET u == mon[1].uid
                 A == ToSol(lamports_received(chain[s], mon[1].dep_addr))
             IN  /\ Cardinality(EntriesTagged(SigTag(s))) = 1
                 /\ Cardinality(DepositEntriesOf(s, u)) = 1
                 /\ \A i \in DepositEntriesOf(s, u) : transactions[i].amount_sol = A
                 /\ balance_sol[u] = A
                 /\ transactions' = transactions
                 /\ balance_sol' = balance_sol
                 /\ mon'[1].last_sigs[u] = s]_vars

\* a fresh deposit to the referred account has been attributed and the loop
\* has moved on
C21_Witness ==
    /\ mon[1].pc = "for_user"
    /\ mon[1].last_sigs[2] # None
    /\ balance_sol[2] = ToSol(MaxLamports)
    /\ HistoryOf(deposit_address[2]) = {mon[1].last_sigs[2]}

\* C22: the ledger holds at most one entry per tag, whatever the attributors,
\* the purchases and the sweeps do side by side
C22_OneEntryPerTag ==
    \A i, j \in 1 .. Len(transactions) :
        transactions[i].tx_signature = transactions[j].tx_signature => i = j

\* both attributors went for the insert of the same deposit, and the ledger
\* holds a purchase and a sweep entry as well
C22_Witness ==
    /\ \E m \in Monitors : mon[m].outcome = "duplicate"
    /\ \E i \in 1 .. Len(transactions) : transactions[i].tx_type = "purchase"
    /\ \E i \in 1 .. Len(transactions) : transactions[i].tx_type = "sweep"

\* C23: when the turn of an account in a cycle ends and neither the ledger
\* lookup nor the message sink raises, one notification is sent to the
\* account if a deposit was credited to it in this turn, and none otherwise
C23_NotifyIffCredited ==
    [][mon[1].pc = "after" /\ mon'[1] # mon[1] /\ faults' = faults =>
          LET u == mon[1].uid
          IN  /\ \A v \in Users \ {u} : notifications'[v] = notifications[v]
              /\ notifications'[u] = notifications[u] + (IF mon[1].credited THEN 1 ELSE 0)]_vars

\* C24: no account ever has a negative balance
C24_BalanceNonNegative == \A u \in Users : balance_sol[u] >= 0

\* C25: an account whose address has a positive net amount in a finalized
\* transfer is not passed over for it: the attribution of the transfer to
\* that account returns at the check of line 141 only when the ledger holds
\* a deposit entry of that account for the signature
C25_SharedTransferCreditsBoth ==
    [][(/\ mon[1].pc = "pt_check"
        /\ mon'[1].pc = "for_tx"
        /\ mon'[1].outcome = "already"
        /\ chain[CurSig(1)].final
        /\ mon[1].dep_addr \in chain[CurSig(1)].account_keys
        /\ lamports_received(chain[CurSig(1)], mon[1].dep_addr) > 0)
       => DepositEntriesOf(CurSig(1), mon[1].uid) # {}]_vars

\* C26: a deposit entry does not stay without its credit: an attribution
\* that finds a deposit entry of its own account for the signature, for
\* which update_balance of line 166 never ran, does not return without
\* crediting
C26_EntryGetsItsCredit ==
    [][(/\ mon[1].pc = "pt_check"
        /\ DepositEntriesOf(CurSig(1), mon[1].uid) # {}
        /\ n_deposit_credit[CurSig(1)][mon[1].uid] = 0
        /\ mon'[1] # mon[1]
        /\ faults' = faults)
       => mon'[1].pc # "for_tx"]_vars

\* C27: the step of generate_user_keypair that writes the keystore for one
\* account leaves the keystore entry of every other account as it was
C27_KeystoreFrame ==
    [][\A p \in Procs :
          prov[p].pc = "save" /\ prov'[p].pc # "save" =>
             \A v \in Users \ {prov[p].uid} : keypairs_file'[v] = keypairs_file[v]]_vars

\* C28: within one turn the transfers fetched for an address are attempted
\* oldest first: the transfers still to be attempted are in the order in
\* which they reached the chain, the one attempted is the first of them, and
\* an attempt removes exactly that one
C28_OldestFirst ==
    /\ [](\A i, j \in 1 .. Len(mon[1].todo) : i < j => mon[1].todo[i] < mon[1].todo[j])
    /\ [][mon[1].pc = "for_tx" /\ mon'[1].pc = "pt_check" =>
             /\ mon'[1].todo = mon[1].todo
             /\ \A i \in 2 .. Len(mon[1].todo) : CurSig(1) < mon[1].todo[i]]_vars
    /\ [][mon[1].pc \in {"pt_check", "pt_get", "pt_record", "pt_credit", "pt_user",
                         "pt_bonus", "pt_bonus_record"} =>
             \/ mon'[1].todo = mon[1].todo
             \/ mon'[1].todo = Tail(mon[1].todo) /\ mon'[1].pc = "for_tx"]_vars

\* the older of two fetched transfers is being attempted
C28_Witness ==
    /\ mon[1].pc = "pt_check"
    /\ Len(mon[1].todo) = 2
    /\ mon[1].todo[1] < mon[1].todo[2]

\* C29: the sweep is sized from the on-chain balance B alone: when get_balance
\* answers B above the floor the transfer is prepared for B minus the floor,
\* that amount stays as it is until the sweep returns, the lamports that
\* leave the address are that amount and reach the treasury, and the entry
\* written is a 'sweep' of minus that amount for the account
C29_SweepSizedFromChain ==
    /\ [][(/\ sweep.pc = "get_balance"
           /\ onchain[sweep.pubkey] > sweep.min_retain_lamports
           /\ sweep' # sweep)
          => \/ /\ sweep'.pc = "send"
                /\ sweep'.amount_to_transfer =
                       onchain[sweep.pubkey] - sweep.min_retain_lamports
             \/ /\ sweep' = SweepIdle
                /\ sweep_results' = Append(sweep_results, NoResult(sweep.uid, "rpc_error"))]_vars
    /\ [][sweep.pc \in {"send", "confirm", "record", "read_user", "deduct"} =>
             \/ sweep' = SweepIdle
             \/ /\ sweep'.amount_to_transfer = sweep.amount_to_transfer
                /\ sweep'.uid = sweep.uid
                /\ sweep'.pubkey = sweep.pubkey]_vars
    /\ [][onchain' # onchain =>
             /\ sweep.pc = "confirm"
             /\ onchain' = [onchain EXCEPT ![sweep.pubkey] = @ - sweep.amount_to_transfer]
             /\ treasury' = treasury + sweep.amount_to_transfer]_vars
    /\ [][sweep.pc = "record" /\ sweep' # sweep /\ faults' = faults =>
             transactions' = Append(transactions,
                 [tx_signature |-> SweepTag(sweep.tx_sig), user_id |-> sweep.uid,
                  amount_sol |-> 0 - ToSol(sweep.amount_to_transfer),
                  tx_type |-> "sweep"])]_vars

\* a sweep of everything above the floor has landed and is recorded for an
\* account whose internal balance is another amount
C29_Witness ==
    /\ sweep.pc = "read_user"
    /\ sweep.amount_to_transfer = MaxOnChain - sweep.min_retain_lamports
    /\ treasury = sweep.amount_to_transfer
    /\ SweepEntries # {}
    /\ balance_sol[sweep.uid] # ToSol(sweep.amount_to_transfer)
    /\ balance_sol[sweep.uid] > 0

C31_EveryAccountPolled ==
    [][\A m \in Monitors :
          mon[m].pc = "sleep" /\ mon'[m].pc = "for_user" =>
             \A u \in Users :
                deposit_address[u] # None =>
                   \E i \in 1 .. Len(mon'[m].users) : mon'[m].users[i].id = u]_vars

ReferralEntriesOf(u) ==
    SelectSeq(transactions,
              LAMBDA e : e.user_id = u /\
                         e.tx_type \in {"referral_bonus", "referral_commission"})

\* C32: for every account, referral_earnings equals the sum of the amounts
\* of the account's referral_bonus and referral_commission entries, whenever
\* no attribution is under way.
C32_EarningsMatchEntries ==
    (\A m \in Monitors : ~InAttribution(m))
    => \A u \in Users : referral_earnings[u] = SumAmounts(ReferralEntriesOf(u))

\* C33: whenever an account has a watermark, a ledger entry tagged with the
\* watermark's signature exists.
C33_WatermarkIsAttributed ==
    \A m \in Monitors, u \in Users :
        mon[m].last_sigs[u] # None =>
            EntriesTagged(SigTag(mon[m].last_sigs[u])) # {}

\* a watermark stands at an attributed deposit while an earlier transfer to
\* the same address was examined in the same turn and not attributed
C33_Witness ==
    \E u \in Users, s \in Sigs :
        /\ mon[1].last_sigs[u] # None
        /\ s < mon[1].last_sigs[u]
        /\ OnChain(s)
        /\ chain[s].mentions = {deposit_address[u]}
        /\ EntriesTagged(SigTag(s)) = {}
        /\ EntriesTagged(SigTag(mon[1].last_sigs[u])) # {}

\* the call of sweep_user_funds ends at this step, reporting failure for
\* account u, with the ledger and the balances as they were
SweepFailsFor(u) ==
    /\ sweep' = SweepIdle
    /\ Len(sweep_results') = Len(sweep_results) + 1
    /\ sweep_results'[Len(sweep_results')].user_id = u
    /\ ~sweep_results'[Len(sweep_results')].ok
    /\ transactions' = transactions
    /\ balance_sol' = balance_sol

\* C34: if the transfer submission raises or returns no signature, or the
\* account has no usable keypair, the sweep records no ledger entry, leaves
\* the balance unchanged and reports failure: a call for an account without
\* keypair does not get past its first step, a call that is at the submission
\* either obtains a signature or ends there, and nothing is written to the
\* ledger or the balances up to and including that step.
C34_FailedSweepWritesNothing ==
    /\ [][sweep.pc = "idle" /\ sweep'.pc # "idle" =>
             keypairs_file[sweep'.uid] # None]_vars
    /\ [][sweep.pc = "idle" /\ sweep_results' # sweep_results =>
             \E u \in Users : SweepFailsFor(u)]_vars
    /\ [][sweep.pc = "send" /\ sweep' # sweep =>
             \/ /\ sweep'.pc = "confirm"
                /\ sweep'.tx_sig # None
                /\ sweep_results' = sweep_results
             \/ SweepFailsFor(sweep.uid)]_vars
    /\ [][sweep.pc \in {"idle", "get_balance", "send"} =>
             /\ transactions' = transactions
             /\ balance_sol' = balance_sol]_vars

\* a sweep returned without result, for an account whose keypair is missing
\* or after a submission that failed, the account holding a balance and its
\* address holding funds
C34_Witness ==
    /\ sweep_results # << >>
    /\ LastResult.why \in {"no_keypair", "send_failed"}
    /\ LastResult.why = "no_keypair" <=> keypairs_file[LastResult.user_id] = None
    /\ balance_sol[LastResult.user_id] > 0
    /\ onchain[deposit_address[LastResult.user_id]] > 0
    /\ transactions = << >>

\* C35: ledger entries are append-only: no step of attribution, purchase,
\* sweep or referral credit changes or removes an existing entry; every step
\* leaves the ledger as it was or adds entries at its end.
C35_AppendOnly ==
    [][/\ Len(transactions') >= Len(transactions)
       /\ SubSeq(transactions', 1, Len(transactions)) = transactions]_vars

\* the ledger holds a deposit, a referral bonus, a purchase and a sweep
\* entry, and an insert of a tag that was already there has been refused
C35_Witness ==
    /\ \E m \in Monitors : mon[m].outcome = "duplicate"
    /\ \A t \in {"deposit", "referral_bonus", "purchase", "sweep"} :
          \E i \in 1 .. Len(transactions) : transactions[i].tx_type = t

\* the accounts that have a registered address, in the order of the batch
BatchAccounts ==
    SelectSeq(DescSeq(Users), LAMBDA u : deposit_address[u] # None)

\* a finished batch called sweep_user_funds once for every account that has
\* a registered address, one after the other
BatchAttemptsAll ==
    batch.pc = "done" =>
        /\ Len(sweep_results) = Len(BatchAccounts)
        /\ \A i \in 1 .. Len(sweep_results) :
              sweep_results[i].user_id = BatchAccounts[i]

\* the list a finished batch returns holds the result of every call that
\* swept, once, and nothing else
BatchResultsExact ==
    batch.pc = "done" =>
        batch.results = SelectSeq(sweep_results, LAMBDA r : r.ok)

\* C36: the batch sweep attempts every account that has a registered
\* address, one at a time, whatever the outcome for the accounts before it,
\* and what it hands back is one result per account swept together with the
\* number of successes, the number of failures and the total swept.
C36_BatchResult ==
    /\ BatchAttemptsAll
    /\ BatchResultsExact
    /\ batch.pc = "done" =>
          batch.logged =
              [successful_sweeps |-> Len(SelectSeq(sweep_results, LAMBDA r : r.ok)),
               failed_sweeps |-> Len(SelectSeq(sweep_results, LAMBDA r : ~r.ok)),
               total_sol_swept |-> SumTransferred(SelectSeq(sweep_results,
                                                            LAMBDA r : r.ok))]

\* what the code does hand back: the list of results, and in the log the
\* number of successful sweeps and the total
BatchLogsSuccesses ==
    batch.pc = "done" =>
        /\ batch.logged.successful_sweeps = Len(SelectSeq(sweep_results, LAMBDA r : r.ok))
        /\ batch.logged.total_sol_swept =
              SumTransferred(SelectSeq(sweep_results, LAMBDA r : r.ok))
        /\ DOMAIN batch.logged = {"successful_sweeps", "total_sol_swept"}
=============================================================================
